---------------------------- MODULE Spec2Model ----------------------------
(***************************************************************************)
(* Hash router of The-Filefly-Project/hopper (src/src/Router.ts, second    *)
(* class `Router`, lines 160-402).                                         *)
(*                                                                         *)
(* A JavaScript string is a sequence of one-character strings, so that     *)
(* replace / startsWith / endsWith / slice / split are computed character  *)
(* by character.  The JavaScript value `undefined` is the constant         *)
(* Undefined, which is no string.                                          *)
(***************************************************************************)
EXTENDS Integers, Sequences, FiniteSets, TLC

VARIABLES
    routes,        \* #routes: the own property keys of the object, in creation order
    currentRoute,  \* #currentRoute: a key, or Undefined
    hash,          \* window.location.hash
    listening,     \* whether #listener is registered for 'hashchange'
    pending,       \* hashchange events queued by the browser, not yet dispatched
    trans,         \* the calls of #handleHashChange, in call order; each an async activation
    probe,         \* last result of #chooseBest / #rank observed by the matcher specification
    norm,          \* a raw fragment parsed by new Router.Route, and its result parsed again
    historyLen,    \* history.length: the entries of the session history
    proto          \* the earlier router of src/unnamed/part_001: #listening and the listeners
                   \* it has registered for 'hashchange'

vars == <<routes, currentRoute, hash, listening, pending, trans, probe, norm, historyLen, proto>>

-----------------------------------------------------------------------------
(* Bounds *)

MaxTransitions == 2   \* calls of #handleHashChange in one behaviour
MaxRoutes == 3        \* registry entries in the matcher specification
MaxRawLen == 3        \* characters of a raw fragment in the normalization specification
MaxClosures == 4      \* arrow functions created by the router of src/unnamed/part_001

-----------------------------------------------------------------------------
(* JavaScript values and string primitives *)

Undefined == <<"undefined">>

Digits == <<"0", "1", "2", "3", "4", "5", "6", "7", "8", "9">>

STAR == <<"*">>

\* String(undefined), the property key that `obj[undefined]` looks up
UndefinedKey == <<"u", "n", "d", "e", "f", "i", "n", "e", "d">>

ToPropertyKey(k) == IF k = Undefined THEN UndefinedKey ELSE k

\* a value is truthy unless it is undefined or the empty string
Truthy(s) == s # Undefined /\ s # <<>>

StartsWith(s, c) == Len(s) > 0 /\ s[1] = c

EndsWith(s, c) == Len(s) > 0 /\ s[Len(s)] = c

\* s.slice(from) with a 0-based index
SliceFrom(s, from) == SubSeq(s, from + 1, Len(s))

\* index (1-based) of the first occurrence of character c in s, 0 when absent
IndexOf(s, c) ==
    IF \E i \in 1..Len(s) : s[i] = c
    THEN CHOOSE i \in 1..Len(s) : s[i] = c /\ \A j \in 1..(i - 1) : s[j] # c
    ELSE 0

RECURSIVE Split(_, _)
\* s.split(c) for a one-character separator
Split(s, c) ==
    LET i == IndexOf(s, c)
    IN  IF i = 0 THEN <<s>>
        ELSE <<SubSeq(s, 1, i - 1)>> \o Split(SubSeq(s, i + 1, Len(s)), c)

\* hash.replace(/#\/|#/, ''): removes the first "#/", or else "#", found in the string
ReplaceHash(s) ==
    LET i == IndexOf(s, "#")
    IN  IF i = 0 THEN s
        ELSE IF i < Len(s) /\ s[i + 1] = "/"
             THEN SubSeq(s, 1, i - 1) \o SubSeq(s, i + 2, Len(s))
             ELSE SubSeq(s, 1, i - 1) \o SubSeq(s, i + 1, Len(s))

\* new Router.Route(hash): the fields string and segments
Route(h) ==
    LET noHash  == ReplaceHash(h)
        noLead  == IF StartsWith(noHash, "/") THEN SliceFrom(noHash, 1) ELSE noHash
        noTrail == IF EndsWith(noLead, "/") THEN SubSeq(noLead, 1, Len(noLead) - 1) ELSE noLead
        route   == Split(noTrail, "?")[1]
    IN  [string |-> route, segments |-> Split(route, "/")]


-----------------------------------------------------------------------------
(* The registry object #routes: Record<string, RouteEntry>.                  *)
(* An entry's `string` is its key and its `segments` are the key split on    *)
(* '/', so the object is modelled by its keys in creation order; the         *)
(* handlers of an entry are named by the key.                                *)

Has(reg, k) == \E i \in 1..Len(reg) : reg[i] = k

\* this.#routes[k]: the entry (named by its key), or Undefined
Lookup(reg, k) == IF Has(reg, ToPropertyKey(k)) THEN ToPropertyKey(k) ELSE Undefined

Segments(key) == Split(key, "/")

IsDigit(c) == \E i \in 1..Len(Digits) : Digits[i] = c

DigitValue(c) == (CHOOSE i \in 1..Len(Digits) : Digits[i] = c) - 1

RECURSIVE NumValue(_)
NumValue(s) ==
    IF s = <<>> THEN 0
    ELSE NumValue(SubSeq(s, 1, Len(s) - 1)) * 10 + DigitValue(s[Len(s)])

\* an integer-like key (a canonical array index) of a JavaScript object
IsArrayIndex(k) ==
    /\ Len(k) > 0
    /\ \A i \in 1..Len(k) : IsDigit(k[i])
    /\ (Len(k) = 1 \/ k[1] # "0")
    /\ Len(k) <= 9   \* array indices are below 2^32 - 1; every numeral of up to 9 digits is

RECURSIVE Ascending(_)
\* the keys of a set of integer-like keys in ascending numeric order
Ascending(S) ==
    IF S = {} THEN <<>>
    ELSE LET m == CHOOSE k \in S : \A o \in S : NumValue(k) <= NumValue(o)
         IN  <<m>> \o Ascending(S \ {m})

IsStringKey(k) == ~IsArrayIndex(k)

\* the order in which `for (const route in this.#routes)` visits the keys:
\* integer-like keys ascending, then the other keys in creation order
ForIn(reg) ==
    Ascending({reg[i] : i \in {j \in 1..Len(reg) : IsArrayIndex(reg[j])}})
        \o SelectSeq(reg, IsStringKey)

\* this.#routes[key] = {...}: an existing key keeps its place, a new key is created last
SetEntry(reg, key) == IF Has(reg, key) THEN reg ELSE Append(reg, key)

\* delete this.#routes[key]
DeleteEntry(reg, key) == SelectSeq(reg, LAMBDA k : k # key)

-----------------------------------------------------------------------------
(* Ranking *)

EXACT_MATCH == 3
PARAMETER_MATCH == 2
WILDCARD_MATCH == 1

RECURSIVE RankFrom(_, _, _, _)
\* the loop of #rank from the 1-based index i (the code's i + 1) with the given score
RankFrom(route, user, i, score) ==
    IF i > Len(route) THEN score
    ELSE
        LET rc == route[i]
            uc == IF i <= Len(user) THEN user[i] ELSE Undefined
        IN  IF rc = uc
            THEN RankFrom(route, user, i + 1, score + EXACT_MATCH)
            ELSE IF Truthy(rc) /\ StartsWith(rc, ":")
            THEN RankFrom(route, user, i + 1, score + PARAMETER_MATCH)
            ELSE IF i = Len(route) /\ Truthy(rc) /\ rc = STAR
            THEN IF ~Truthy(uc) THEN 0
                 ELSE score + ((Len(user) - 1) - (i - 1)) * WILDCARD_MATCH
            ELSE 0  \* a non-trailing '*' adds WILDCARD_MATCH and then falls into `return 0`

Rank(route, user) == RankFrom(route, user, 1, 0)

RECURSIVE ChooseFrom(_, _, _, _)
\* the loop of #chooseBest over the keys still to visit, with best = [bestRank, bestKey]
ChooseFrom(keys, user, bestRank, bestKey) ==
    IF keys = <<>> THEN <<bestRank, bestKey>>
    ELSE LET rank == Rank(Segments(Head(keys)), user)
         IN  IF rank > bestRank
             THEN ChooseFrom(Tail(keys), user, rank, Head(keys))
             ELSE ChooseFrom(Tail(keys), user, bestRank, bestKey)

\* #chooseBest without the test of the best rank: the empty string stands for no match
ChooseBestUnchecked(reg, user) == ChooseFrom(ForIn(reg), user, 0, <<>>)[2]

ChooseBest(reg, user) ==
    LET best == ChooseFrom(ForIn(reg), user, 0, <<>>)
    IN  IF best[1] # 0 THEN best[2] ELSE Undefined

-----------------------------------------------------------------------------
(* Binding: #getUserRouteDetails *)

\* user[i] for the 1-based index i, undefined beyond the end
At(user, i) == IF i <= Len(user) THEN user[i] ELSE Undefined

\* the object params = {}
EmptyParams == [n \in {} |-> Undefined]

\* params[name] = value
SetParam(params, name, value) ==
    [n \in (DOMAIN params) \cup {name} |-> IF n = name THEN value ELSE params[n]]

\* the trailing capture taken one segment too late: user.slice(route.length)
TrailingCaptureAfter(route, user) == SubSeq(user, Len(route) + 1, Len(user))

\* user.slice(route.length-1, user.length)
TrailingCapture(route, user) == SubSeq(user, Len(route), Len(user))

RECURSIVE DetailsFrom(_, _, _, _, _)
\* the loop of #getUserRouteDetails from the 1-based index i
DetailsFrom(route, user, i, wildcards, params) ==
    IF i > Len(route) THEN [wildcards |-> wildcards, params |-> params]
    ELSE
        LET rc == route[i]
            uc == At(user, i)
        IN  IF Truthy(rc) /\ StartsWith(rc, ":")
            THEN DetailsFrom(route, user, i + 1, wildcards, SetParam(params, SliceFrom(rc, 1), uc))
            ELSE IF i = Len(route) /\ rc = STAR
            THEN DetailsFrom(route, user, i + 1, wildcards \o TrailingCapture(route, user), params)
            ELSE IF rc = STAR
            THEN DetailsFrom(route, user, i + 1, Append(wildcards, uc), params)
            ELSE DetailsFrom(route, user, i + 1, wildcards, params)

GetUserRouteDetails(route, user) == DetailsFrom(route, user, 1, <<>>, EmptyParams)

\* line 264: the details of the matched entry, or of no segments when nothing matched
DetailsOf(match, user) ==
    GetUserRouteDetails(IF match # Undefined THEN Segments(match) ELSE <<>>, user)

-----------------------------------------------------------------------------
(* Inputs of the navigation specification *)

K404 == <<"4", "0", "4">>

\* arguments of add()
LifecyclePatterns == { <<"/", "a", "/">>, K404 }

\* arguments of remove()
RemovedPatterns == { <<"a">> }

\* fragments the user navigates to (address bar, links)
NavHashes == { <<"#", "a">>, <<"#", "/", "4", "0", "4">>, <<"#", "/", "z", "z">> }

\* arguments of set()
SetHashes == { <<"#", "z", "z">> }

\* window.location.hash when the router is constructed
InitialHashes == { <<>>, <<"#", "/", "a">> }

\* the constructor's startingRoute
StartingRoutes == { Undefined, <<"a">> }

-----------------------------------------------------------------------------
(* #handleHashChange: one record per call.                                   *)
(*   pc      "awaitExit" | "awaitEnter" | "done" | "rejected" (the promise   *)
(*           returned by the call rejected: a handler's error escaped)       *)
(*   exit    state of the beforeExit call:  "none" | "pending" | "ok" | "failed" *)
(*   enter   state of the afterEnter call, likewise                          *)
(*   exitKey, enterKey   the entries whose handlers were called              *)
(*   committed   the value assigned to #currentRoute, or NotCommitted        *)
(*   leaving     #currentRoute when the call was made                        *)

NotCommitted == <<"not committed">>

NewCall(noLeave, entering, matchingRoute, match, lastMatch) ==
    [ noLeave |-> noLeave, path |-> entering.string, leaving |-> currentRoute,
      matchingRoute |-> matchingRoute, match |-> match, lastMatch |-> lastMatch,
      pc |-> "start", exit |-> "none", exitKey |-> Undefined,
      enter |-> "none", enterKey |-> Undefined, committed |-> NotCommitted ]

\* lines 279-287 up to the next await (or to the end when nothing is awaited)
EnterPhase(rec, reg) ==
    IF rec.match # Undefined
    THEN [rec EXCEPT !.enter = "pending", !.enterKey = rec.match, !.pc = "awaitEnter"]
    ELSE IF Lookup(reg, K404) # Undefined
         THEN [rec EXCEPT !.enter = "pending", !.enterKey = K404, !.pc = "awaitEnter"]
         ELSE [rec EXCEPT !.pc = "done", !.committed = K404]

\* beforeExit is called and not awaited
ExitPhaseNotAwaited(rec, reg) ==
    IF rec.lastMatch # Undefined /\ ~rec.noLeave
    THEN EnterPhase([rec EXCEPT !.exit = "pending", !.exitKey = rec.lastMatch], reg)
    ELSE EnterPhase(rec, reg)

\* beforeExit is called whatever noLeave says
ExitPhaseOnEveryCall(rec, reg) ==
    IF rec.lastMatch # Undefined
    THEN [rec EXCEPT !.exit = "pending", !.exitKey = rec.lastMatch, !.pc = "awaitExit"]
    ELSE EnterPhase(rec, reg)

\* lines 275-277: beforeExit is called and awaited
ExitPhase(rec, reg) ==
    IF rec.lastMatch # Undefined /\ ~rec.noLeave
    THEN [rec EXCEPT !.exit = "pending", !.exitKey = rec.lastMatch, !.pc = "awaitExit"]
    ELSE EnterPhase(rec, reg)

\* the await of line 276 resumes
AfterExit(rec, reg, ok) ==
    IF ok THEN EnterPhase([rec EXCEPT !.exit = "ok"], reg)
    ELSE [rec EXCEPT !.exit = "failed", !.pc = "rejected"]

\* the await of line 280 or 285 resumes
AfterEnter(rec, ok) ==
    IF ok
    THEN [rec EXCEPT !.enter = "ok", !.pc = "done",
                     !.committed = IF rec.match # Undefined THEN rec.matchingRoute ELSE K404]
    ELSE [rec EXCEPT !.enter = "failed", !.pc = "rejected"]

\* the assignment to #currentRoute, made when the call runs to its end
Commit(rec) == IF rec.pc = "done" THEN rec.committed ELSE currentRoute

\* a current key without an entry is resolved to the first entry of the registry
LastMatchHealed(reg, current) ==
    IF Lookup(reg, current) = Undefined /\ current # Undefined /\ reg # <<>>
    THEN reg[1]
    ELSE Lookup(reg, current)

\* line 262: this.#routes[this.#currentRoute!]
LastMatch(reg, current) == Lookup(reg, current)

\* history.pushState(null, '', url): a new entry, which becomes the current one
PushState(session, url) == [length |-> session.length + 1, hash |-> url]

\* history.replaceState(null, '', url): the current entry is rewritten
ReplaceState(session, url) == [length |-> session.length, hash |-> url]

\* a call of #handleHashChange(noLeave), run up to its first await
HandleHashChange(noLeave) ==
    LET entering      == Route(hash)
        matchingRoute == ChooseBest(routes, entering.segments)
        match         == Lookup(routes, matchingRoute)
        lastMatch     == LastMatch(routes, currentRoute)
        rec == ExitPhase(NewCall(noLeave, entering, matchingRoute, match, lastMatch), routes)
    IN  /\ Len(trans) < MaxTransitions
        /\ trans' = Append(trans, rec)
        /\ LET session == ReplaceState([length |-> historyLen, hash |-> hash],
                                       <<"#", "/">> \o entering.string)
           IN  hash' = session.hash /\ historyLen' = session.length
        /\ currentRoute' = Commit(rec)

-----------------------------------------------------------------------------
(* Actions *)

\* add(h, handlers)
AddRoute(h) ==
    /\ routes' = SetEntry(routes, Route(h).string)
    /\ UNCHANGED <<currentRoute, hash, listening, pending, trans, norm, historyLen, proto>>

\* remove(h)
RemoveRoute(h) ==
    /\ routes' = DeleteEntry(routes, h)
    /\ UNCHANGED <<currentRoute, hash, listening, pending, trans, norm, historyLen, proto>>

Add == \E h \in LifecyclePatterns : AddRoute(h) /\ UNCHANGED probe

Remove == \E h \in RemovedPatterns : RemoveRoute(h) /\ UNCHANGED probe

\* the browser changes the fragment and queues a hashchange event if it differs
ChangeHash(h) ==
    /\ h # hash
    /\ Len(trans) + pending < MaxTransitions
    /\ historyLen <= MaxTransitions
    /\ hash' = h
    /\ pending' = pending + 1
    /\ historyLen' = historyLen + 1
    /\ UNCHANGED <<routes, currentRoute, listening, trans, probe, norm, proto>>

Navigate == \E h \in NavHashes : ChangeHash(h)

\* set(hash)
Set == \E h \in SetHashes : ChangeHash(<<"#", "/">> \o ReplaceHash(h))

Load ==
    /\ HandleHashChange(TRUE)
    /\ UNCHANGED <<routes, listening, pending, probe, norm, proto>>

StartListening ==
    /\ listening' = TRUE
    /\ HandleHashChange(TRUE)
    /\ UNCHANGED <<routes, pending, probe, norm, proto>>

StopListening ==
    /\ listening
    /\ listening' = FALSE
    /\ UNCHANGED <<routes, currentRoute, hash, pending, trans, probe, norm, historyLen, proto>>

\* the browser dispatches a queued hashchange event to #listener
Listener ==
    /\ pending > 0
    /\ listening
    /\ pending' = pending - 1
    /\ HandleHashChange(FALSE)
    /\ UNCHANGED <<routes, listening, probe, norm, proto>>

\* a queued hashchange event finds no listener
Unheard ==
    /\ pending > 0
    /\ ~listening
    /\ pending' = pending - 1
    /\ UNCHANGED <<routes, currentRoute, hash, listening, trans, probe, norm, historyLen, proto>>

ExitSettles(t, ok) ==
    /\ trans[t].pc = "awaitExit"
    /\ LET rec == AfterExit(trans[t], routes, ok)
       IN  /\ trans' = [trans EXCEPT ![t] = rec]
           /\ currentRoute' = Commit(rec)
    /\ UNCHANGED <<routes, hash, listening, pending, probe, norm, historyLen, proto>>

EnterSettles(t, ok) ==
    /\ trans[t].pc = "awaitEnter"
    /\ LET rec == AfterEnter(trans[t], ok)
       IN  /\ trans' = [trans EXCEPT ![t] = rec]
           /\ currentRoute' = Commit(rec)
    /\ UNCHANGED <<routes, hash, listening, pending, probe, norm, historyLen, proto>>

ExitResolves == \E t \in 1..Len(trans) : ExitSettles(t, TRUE)
ExitRejects == \E t \in 1..Len(trans) : ExitSettles(t, FALSE)
EnterResolves == \E t \in 1..Len(trans) : EnterSettles(t, TRUE)
EnterRejects == \E t \in 1..Len(trans) : EnterSettles(t, FALSE)

\* probe: the last call observed by the matcher specification (op, arg) and, for a call of
\* #chooseBest, what it was given and what it and #rank, #getUserRouteDetails returned
NoProbe ==
    [ op |-> "none", arg |-> <<>>, asked |-> FALSE, keys |-> <<>>, user |-> <<>>,
      best |-> Undefined, ranks |-> <<>>, details |-> GetUserRouteDetails(<<>>, <<>>) ]

\* the router of src/unnamed/part_001 as constructed
NoProto == [ listening |-> FALSE, listeners |-> {}, timers |-> {}, closures |-> 0,
             dispatched |-> FALSE, started |-> FALSE, handled |-> 0 ]

\* norm: no fragment parsed yet
NoNorm == [done |-> FALSE, raw |-> <<>>, once |-> Route(<<>>), twice |-> Route(<<>>)]

Init ==
    /\ routes = <<>>
    /\ currentRoute \in StartingRoutes
    /\ hash \in InitialHashes
    /\ listening = FALSE
    /\ pending = 0
    /\ trans = <<>>
    /\ probe = NoProbe
    /\ norm = NoNorm
    /\ historyLen = 1
    /\ proto = NoProto

Next ==
    \/ Add
    \/ Remove
    \/ Navigate
    \/ Set
    \/ Load
    \/ StartListening
    \/ StopListening
    \/ Listener
    \/ Unheard
    \/ ExitResolves
    \/ ExitRejects
    \/ EnterResolves
    \/ EnterRejects

Spec == Init /\ [][Next]_vars

-----------------------------------------------------------------------------
(* The matcher on its own: registries built by add/remove from a wider pool  *)
(* of patterns, and #chooseBest / #rank applied to the segments of a request. *)

MatcherPatterns ==
    { <<>>,
      <<"*">>,
      <<":", "a", "/", "*">>,
      K404,
      <<"/", "a", "/", ":", "x", "/">>,
      <<":", "y", "/", "b">>,
      <<"u", "s", "e", "r">>,
      <<"u", "s", "e", "r", "/", "*">>,
      <<"u", "s", "e", "r", "/", ":", "i", "d">>,
      <<"u", "s", "e", "r", "/", "*", "/", "h", "e", "l", "l", "o">> }

MatcherRequests ==
    { <<"#", "/", "4", "0", "4", "/", "b", "/", "c">>,
      <<"#", "/", "a", "/", "b">>,
      <<"#", "/", "u", "s", "e", "r", "/", "s", "e", "t", "t", "i", "n", "g", "s", "/", "e", "d", "i", "t">>,
      <<"#", "/", "u", "s", "e", "r">>,
      <<"#", "/", "u", "s", "e", "r", "/", "4", "2">>,
      <<"#", "/", "u", "s", "e", "r", "/", "4", "2", "/", "h", "e", "l", "l", "o">>,
      <<"#", "/", "u", "s", "e", "r", "/", "*", "/", "h", "e", "l", "l", "o">>,
      <<"#", "/", "z", "z">>,
      <<>> }

\* probe is the observation of the last #chooseBest call on the registry as it is;
\* a call of add or remove discards it
Register ==
    \E h \in MatcherPatterns :
        /\ Len(routes) < MaxRoutes
        /\ AddRoute(h)
        /\ probe' = [NoProbe EXCEPT !.op = "add", !.arg = h]

Unregister ==
    \E h \in MatcherPatterns :
        /\ RemoveRoute(h)
        /\ probe' = [NoProbe EXCEPT !.op = "remove", !.arg = h]

\* #chooseBest(entering.segments), with #rank of every entry, and #getUserRouteDetails, as
\* lines 259-264 call them
Choose ==
    \E h \in MatcherRequests :
        LET user == Route(h).segments
            best == ChooseBest(routes, user)
        IN  /\ probe' = [ op |-> "choose", arg |-> h,
                          asked |-> TRUE, keys |-> routes, user |-> user,
                          best |-> best,
                          ranks |-> [i \in 1..Len(routes) |-> Rank(Segments(routes[i]), user)],
                          details |-> DetailsOf(Lookup(routes, best), user) ]
            /\ UNCHANGED <<routes, currentRoute, hash, listening, pending, trans, norm, historyLen, proto>>

InitMatch ==
    /\ routes = <<>>
    /\ currentRoute = Undefined
    /\ hash = <<>>
    /\ listening = FALSE
    /\ pending = 0
    /\ trans = <<>>
    /\ probe = NoProbe
    /\ norm = NoNorm
    /\ historyLen = 1
    /\ proto = NoProto

NextMatch ==
    \/ Register
    \/ Unregister
    \/ Choose

SpecMatch == InitMatch /\ [][NextMatch]_vars

-----------------------------------------------------------------------------
(* Router.Route on its own: every raw fragment over the characters the      *)
(* constructor treats specially, parsed once and parsed again.               *)

RawAlphabet == { "#", "/", "?", "a" }

RawFragments == UNION { [1..n -> RawAlphabet] : n \in 0..MaxRawLen }

\* new Router.Route(hash), then new Router.Route of the string of the result
Normalize ==
    /\ ~norm.done
    /\ norm' = [ done |-> TRUE, raw |-> hash,
                 once |-> Route(hash), twice |-> Route(Route(hash).string) ]
    /\ UNCHANGED <<routes, currentRoute, hash, listening, pending, trans, probe, historyLen, proto>>

InitNormalize ==
    /\ routes = <<>>
    /\ currentRoute = Undefined
    /\ hash \in RawFragments
    /\ listening = FALSE
    /\ pending = 0
    /\ trans = <<>>
    /\ probe = NoProbe
    /\ norm = NoNorm
    /\ historyLen = 1
    /\ proto = NoProto

NextNormalize == Normalize

SpecNormalize == InitNormalize /\ [][NextNormalize]_vars

-----------------------------------------------------------------------------
(* The earlier router of src/unnamed/part_001: mount / listen / off.          *)
(* Every evaluation of an arrow function gives a new function object, named   *)
(* here by its number in creation order; window's 'hashchange' listeners are  *)
(* the set proto.listeners of such objects and the timers set by mount() are  *)
(* proto.timers.                                                              *)

\* fragments the user navigates to
ProtoHashes == { <<"#", "a">>, <<"#", "/", "b">> }

\* hash.startsWith('#/')
StartsWithHashSlash(s) == Len(s) >= 2 /\ s[1] = "#" /\ s[2] = "/"

\* hash.replace('#', '#/'): the first '#' only
InsertSlash(s) ==
    LET i == IndexOf(s, "#")
    IN  IF i = 0 THEN s
        ELSE SubSeq(s, 1, i) \o <<"/">> \o SubSeq(s, i + 1, Len(s))

\* the function object the next arrow function expression evaluates to
NewClosure(p) == p.closures + 1

\* listen()
ListenBody(p) ==
    IF ~p.listening
    THEN [p EXCEPT !.listening = TRUE,
                   !.listeners = @ \cup {NewClosure(p)},   \* addEventListener
                   !.closures = @ + 1]
    ELSE p

\* off()
OffBody(p) ==
    IF p.listening
    THEN [p EXCEPT !.listening = FALSE,
                   !.listeners = @ \ {NewClosure(p)},      \* removeEventListener
                   !.closures = @ + 1]
    ELSE p

ProtoListen ==
    /\ proto.listening \/ proto.closures < MaxClosures
    /\ proto' = ListenBody(proto)
    /\ UNCHANGED <<routes, currentRoute, hash, listening, pending, trans, probe, norm, historyLen>>

ProtoOff ==
    /\ ~proto.listening \/ proto.closures < MaxClosures
    /\ proto' = OffBody(proto)
    /\ UNCHANGED <<routes, currentRoute, hash, listening, pending, trans, probe, norm, historyLen>>

\* mount(): the fragment is given its '/', which queues a hashchange event when it
\* changes the fragment, and listen() is deferred to a timer
ProtoMount ==
    /\ proto.closures < MaxClosures
    /\ LET fixed == IF ~StartsWithHashSlash(hash) THEN InsertSlash(hash) ELSE hash
       IN  /\ hash' = fixed
           /\ pending' = IF fixed # hash THEN pending + 1 ELSE pending
           /\ historyLen' = IF fixed # hash THEN historyLen + 1 ELSE historyLen
    /\ proto' = [proto EXCEPT !.timers = @ \cup {NewClosure(proto)}, !.closures = @ + 1]
    /\ UNCHANGED <<routes, currentRoute, listening, trans, probe, norm>>

\* a timer set by mount() fires: () => this.listen()
ProtoTimer ==
    \E f \in proto.timers :
        /\ proto.listening \/ proto.closures < MaxClosures
        /\ proto' = ListenBody([proto EXCEPT !.timers = @ \ {f}])
        /\ UNCHANGED <<routes, currentRoute, hash, listening, pending, trans, probe, norm, historyLen>>

ProtoNavigate == \E h \in ProtoHashes : ChangeHash(h)

\* the browser dispatches a queued hashchange event: every registered listener calls
\* #handleHashChange once
ProtoDispatch ==
    /\ pending > 0
    /\ pending' = pending - 1
    /\ proto' = [proto EXCEPT !.dispatched = TRUE,
                              !.started = proto.listening,
                              !.handled = Cardinality(proto.listeners)]
    /\ UNCHANGED <<routes, currentRoute, hash, listening, trans, probe, norm, historyLen>>

InitProto ==
    /\ routes = <<>>
    /\ currentRoute = Undefined
    /\ hash \in InitialHashes
    /\ listening = FALSE
    /\ pending = 0
    /\ trans = <<>>
    /\ probe = NoProbe
    /\ norm = NoNorm
    /\ historyLen = 1
    /\ proto = NoProto

NextProto ==
    \/ ProtoMount
    \/ ProtoTimer
    \/ ProtoListen
    \/ ProtoOff
    \/ ProtoNavigate
    \/ ProtoDispatch

SpecProto == InitProto /\ [][NextProto]_vars

-----------------------------------------------------------------------------
(* Properties of the navigation lifecycle (specification Spec) *)

Calls == 1..Len(trans)

InFlight(t) == trans[t].pc \in {"awaitExit", "awaitEnter"}

\* C1: in a call that leaves an active route (not the initial load), afterEnter is
\* invoked only after beforeExit of the route being left was invoked and has settled.
ExitSettledBeforeEnter ==
    \A t \in Calls :
        (trans[t].lastMatch # Undefined /\ ~trans[t].noLeave /\ trans[t].enter # "none")
            => /\ trans[t].exitKey = trans[t].lastMatch
               /\ trans[t].exit \in {"ok", "failed"}

\* C1 witness: a call left route A, its beforeExit completed, and afterEnter of another
\* matched route B has been invoked.
ExitThenEnterReached ==
    \E t \in Calls :
        /\ trans[t].exit = "ok"
        /\ trans[t].enter # "none"
        /\ trans[t].match # Undefined
        /\ trans[t].enterKey = trans[t].match
        /\ trans[t].exitKey # trans[t].enterKey

\* C2: a call started by a hashchange notification is never in flight (awaiting a
\* handler) together with an earlier call that is still in flight.
AtMostOneInFlight ==
    \A t, u \in Calls :
        (t < u /\ ~trans[u].noLeave) => ~(InFlight(t) /\ InFlight(u))

\* C3: once every call has ended and no notification is pending, if the most recent
\* request came by a hashchange notification and its call matched and committed,
\* #currentRoute is the key matched for that request.
LastRequestWins ==
    ( /\ trans # <<>>
      /\ ~trans[Len(trans)].noLeave
      /\ pending = 0
      /\ \A t \in Calls : ~InFlight(t)
      /\ trans[Len(trans)].pc = "done"
      /\ trans[Len(trans)].matchingRoute # Undefined )
        => currentRoute = trans[Len(trans)].matchingRoute

\* C4: in the step in which beforeExit fails, afterEnter of the matched route, or of the
\* '404' entry when nothing matched and it is registered, is invoked.
ExitFailureStillEnters ==
    [][ \A t \in Calls :
            (trans[t].exit = "pending" /\ trans'[t].exit = "failed")
                => \/ trans'[t].enter # "none"
                   \/ (trans[t].match = Undefined /\ Lookup(routes, K404) = Undefined) ]_vars

\* C5: a call in which a handler failed still ends committed: it assigned #currentRoute
\* and its promise did not reject.
HandlerFailureStillCommits ==
    \A t \in Calls :
        (trans[t].exit = "failed" \/ trans[t].enter = "failed")
            => (trans[t].pc = "done" /\ trans[t].committed # NotCommitted)

\* C6: the state committed by a call that matched nothing and entered the '404' fallback
\* differs from the state committed by any call that matched a registered pattern.
NotFoundIsDistinct ==
    \A t, u \in Calls :
        ( /\ trans[t].pc = "done" /\ trans[t].match = Undefined /\ trans[t].enterKey = K404
          /\ trans[u].pc = "done" /\ trans[u].match # Undefined )
            => trans[t].committed # trans[u].committed

\* C7: a call that matched nothing while no fallback was registered invokes no afterEnter
\* and commits no current key; when it is the first call, the second call invokes no
\* beforeExit.
NoFallbackCommitsIdle ==
    /\ \A t \in Calls :
          (trans[t].pc = "done" /\ trans[t].match = Undefined /\ trans[t].enterKey = Undefined)
              => (trans[t].enter = "none" /\ trans[t].committed = Undefined)
    /\ ( /\ Len(trans) >= 2
         /\ trans[1].pc = "done" /\ trans[1].match = Undefined /\ trans[1].enterKey = Undefined )
          => trans[2].exit = "none"

-----------------------------------------------------------------------------
(* Properties of the matcher (specification SpecMatch) *)

Entries == 1..Len(probe.keys)

TopRank == IF Entries = {} THEN 0
           ELSE CHOOSE r \in {probe.ranks[i] : i \in Entries} :
                    \A i \in Entries : probe.ranks[i] <= r

\* the entries of top rank, by position of registration
TopEntries == {i \in Entries : probe.ranks[i] = TopRank}

\* C8: when the top rank is positive, #chooseBest returns the key registered first among
\* the entries of top rank.
FirstRegisteredWinsTie ==
    (probe.asked /\ TopRank > 0)
        => probe.best = probe.keys[CHOOSE i \in TopEntries : \A j \in TopEntries : i <= j]

\* C9: #chooseBest returns a key of maximal rank when that rank is positive, and
\* undefined exactly when every entry ranks 0.
BestHasTopRank ==
    probe.asked =>
        /\ (TopRank > 0) => \E i \in TopEntries : probe.best = probe.keys[i]
        /\ (TopRank = 0) <=> (probe.best = Undefined)

\* C9 witness: a request for which two entries rank positive and differently, and the
\* winner was not registered first.
BestAmongSeveralReached ==
    /\ probe.asked
    /\ probe.best # Undefined
    /\ \E i \in Entries : probe.ranks[i] > 0 /\ probe.ranks[i] < TopRank
    /\ probe.best # probe.keys[1]

\* score of the segments before the last one, when each of them matches as a literal or
\* as a parameter
PrefixScore(route, user) ==
    LET Pts[j \in 0..(Len(route) - 1)] ==
            IF j = 0 THEN 0
            ELSE Pts[j - 1] + (IF j <= Len(user) /\ route[j] = user[j]
                               THEN EXACT_MATCH ELSE PARAMETER_MATCH)
    IN  Pts[Len(route) - 1]

\* the scan of #rank reaches the last pattern segment
ReachesLast(route, user) ==
    \A j \in 1..(Len(route) - 1) :
        (j <= Len(user) /\ route[j] = user[j]) \/ StartsWith(route[j], ":")

\* C10: a trailing '*' at 0-based index i with a request segment at i contributes
\* user.length - i: the request segments from i to the end, inclusive.
TrailingWildcardCountsInclusive ==
    probe.asked =>
        \A e \in Entries :
            LET route == Segments(probe.keys[e])
                user  == probe.user
                i     == Len(route) - 1
            IN  ( /\ route[Len(route)] = STAR
                  /\ Len(user) > i /\ user[i + 1] # <<>>
                  /\ route[Len(route)] # user[i + 1]
                  /\ ReachesLast(route, user) )
                    => probe.ranks[e] = PrefixScore(route, user) + (Len(user) - i) * WILDCARD_MATCH

\* the pattern segment is a ':name' parameter
IsParam(rc) == Truthy(rc) /\ StartsWith(rc, ":")

\* the pattern segment at j and the request segment at j are the same string
SameAt(route, user, j) == j <= Len(user) /\ route[j] = user[j]

\* the sum over the pattern segments of 3 for an equal segment, 2 for a parameter and 1
\* for anything else (a wildcard)
SegmentwiseScore(route, user) ==
    LET Pts[j \in 0..Len(route)] ==
            IF j = 0 THEN 0
            ELSE Pts[j - 1] + (IF SameAt(route, user, j) THEN EXACT_MATCH
                               ELSE IF IsParam(route[j]) THEN PARAMETER_MATCH
                               ELSE WILDCARD_MATCH)
    IN  Pts[Len(route)]

\* the pattern has a '*' before its last index that differs from the request segment there
HasInnerWildcard(route, user) ==
    \E j \in 1..(Len(route) - 1) : route[j] = STAR /\ j <= Len(user) /\ route[j] # user[j]

\* C11: a pattern with a '*' before its last index, whose other segments all match as
\* literals or parameters, scores 1 for that wildcard and goes on: its rank is the sum of
\* the segments' points, which is positive.
InnerWildcardAddsOneAndContinues ==
    probe.asked =>
        \A e \in Entries :
            LET route == Segments(probe.keys[e])
                user  == probe.user
            IN  ( /\ HasInnerWildcard(route, user)
                  /\ route[Len(route)] # STAR
                  /\ \A j \in 1..Len(route) :
                        \/ SameAt(route, user, j)
                        \/ IsParam(route[j])
                        \/ (route[j] = STAR /\ j < Len(route) /\ j <= Len(user)) )
                    => /\ probe.ranks[e] = SegmentwiseScore(route, user)
                       /\ probe.ranks[e] > 0

\* every segment of the non-empty pattern matches the request: an equal literal, a
\* parameter, a '*' before the last index over a request segment, or a trailing '*' with
\* a non-empty request segment at its index
AllSegmentsMatch(route, user) ==
    /\ route # <<>>
    /\ \A j \in 1..Len(route) :
          \/ SameAt(route, user, j)
          \/ IsParam(route[j])
          \/ (route[j] = STAR /\ j <= Len(user) /\ Truthy(user[j]))

\* C12: a non-empty pattern all of whose segments match the request never ranks 0.
MatchedPatternNeverScoresZero ==
    probe.asked =>
        \A e \in Entries :
            AllSegmentsMatch(Segments(probe.keys[e]), probe.user) => probe.ranks[e] > 0

\* what the wildcards of a pattern capture from a request, index by index
CapturedBy(route, user) ==
    LET Cap[j \in 0..Len(route)] ==
            IF j = 0 THEN <<>>
            ELSE IF IsParam(route[j]) \/ route[j] # STAR THEN Cap[j - 1]
            ELSE IF j < Len(route) THEN Append(Cap[j - 1], At(user, j))
            ELSE Cap[j - 1] \o [k \in 1..(Len(user) - j + 1) |-> user[j + k - 1]]
    IN  Cap[Len(route)]

\* C13: for the winning pattern, params holds exactly the names of its ':name' segments,
\* each bound to the request segment at the same index; wildcards holds the request
\* segment at each non-trailing '*' and every request segment from a trailing '*' to the
\* end, in order; literal segments add nothing.
BinderExtractsParamsAndWildcards ==
    (probe.asked /\ probe.best # Undefined) =>
        LET route == Segments(probe.best)
            user  == probe.user
            d     == probe.details
        IN  /\ DOMAIN d.params = { SliceFrom(route[j], 1) : j \in { i \in 1..Len(route) : IsParam(route[i]) } }
            /\ \A j \in 1..Len(route) :
                  ( /\ IsParam(route[j])
                    /\ \A k \in (j + 1)..Len(route) : route[k] # route[j] )
                      => d.params[SliceFrom(route[j], 1)] = At(user, j)
            /\ d.wildcards = CapturedBy(route, user)

\* C13 witness: a winner that bound a parameter and captured two trailing segments.
BoundParamAndTrailReached ==
    /\ probe.asked
    /\ probe.best # Undefined
    /\ DOMAIN probe.details.params # {}
    /\ Len(probe.details.wildcards) >= 2

\* C15: after remove(p) the registry holds no entry under the normalized string of p.
RemoveDeletesNormalizedKey ==
    (probe.op = "remove") => ~Has(routes, Route(probe.arg).string)

\* C14: parsing the string of a parsed fragment gives the same string and the same
\* segments as parsing once.
NormalizeIsIdempotent ==
    norm.done =>
        /\ norm.twice.string = norm.once.string
        /\ norm.twice.segments = norm.once.segments

\* C16: a call made by load() or startListening() invokes no exit handler, whatever
\* #currentRoute is; a call made for a hashchange while #currentRoute is registered
\* invokes that entry's beforeExit, and invokes an enter handler only once it resolved.
InitialLoadSkipsExit ==
    \A t \in Calls :
        /\ trans[t].noLeave => (trans[t].exit = "none" /\ trans[t].exitKey = Undefined)
        /\ (~trans[t].noLeave /\ trans[t].lastMatch # Undefined) =>
              /\ trans[t].exit # "none"
              /\ trans[t].exitKey = trans[t].lastMatch
              /\ (trans[t].enter # "none") => (trans[t].exit = "ok")

\* C16 witness: an initial load with a registered current route ran to its end without
\* an exit, and a later hashchange call exited that route and then entered.
LoadThenExitReached ==
    \E t1, t2 \in Calls :
        /\ t1 < t2
        /\ trans[t1].noLeave /\ trans[t1].lastMatch # Undefined
        /\ trans[t1].exit = "none" /\ trans[t1].pc = "done"
        /\ ~trans[t2].noLeave /\ trans[t2].exitKey = trans[t1].committed
        /\ trans[t2].exit = "ok" /\ trans[t2].enter # "none"

\* C17: a call of #handleHashChange leaves the number of history entries as it is and
\* rewrites the fragment to '#/' followed by the normalized path, whatever matched.
HandlerReplacesNeverPushes ==
    [][ (Len(trans') > Len(trans)) =>
            /\ historyLen' = historyLen
            /\ hash' = <<"#", "/">> \o Route(hash).string ]_vars

\* C17 witness: after a navigation added a history entry, calls with a match and without
\* one have run and the fragment was rewritten.
ReplacedAfterNavigationReached ==
    /\ historyLen = 2
    /\ hash = <<"#", "/", "a">>
    /\ \E t1, t2 \in Calls : trans[t1].match # Undefined /\ trans[t2].match = Undefined

\* C19: a hashchange call made while #currentRoute names no entry of the registry invokes
\* no exit handler and resolves the key to no other entry; it invokes the enter handler
\* of the matched route at once, and a call without exit that runs to its end after a
\* match commits the matched key.
StaleCurrentNotHealed ==
    [][ /\ ( /\ Len(trans') > Len(trans)
             /\ currentRoute # Undefined
             /\ ~Has(routes, currentRoute) ) =>
              LET rec == trans'[Len(trans')]
              IN  /\ rec.lastMatch = Undefined
                  /\ rec.exit = "none" /\ rec.exitKey = Undefined
                  /\ (rec.match # Undefined) =>
                        (rec.enter = "pending" /\ rec.enterKey = rec.match)
        /\ \A t \in 1..Len(trans') :
              ( /\ trans'[t].pc = "done" /\ trans'[t].exit = "none"
                /\ trans'[t].match # Undefined
                /\ (t > Len(trans) \/ trans[t].pc # "done") ) =>
                  currentRoute' = trans'[t].matchingRoute ]_vars

\* C19 witness: a route was entered and committed, its entry was removed, and the next
\* hashchange call left it without an exit, entered the new match and committed it.
StaleThenEnteredReached ==
    \E t1, t2 \in Calls :
        /\ t1 < t2
        /\ trans[t1].enter = "ok" /\ trans[t1].committed = trans[t1].enterKey
        /\ ~trans[t2].noLeave
        /\ trans[t2].leaving = trans[t1].committed
        /\ trans[t2].lastMatch = Undefined /\ trans[t2].exit = "none"
        /\ trans[t2].match # Undefined /\ trans[t2].enter = "ok"
        /\ trans[t2].pc = "done"
        /\ currentRoute = trans[t2].matchingRoute
        /\ currentRoute # trans[t2].leaving

\* C20: the enter and exit handlers of one route alternate: beforeExit of a route is
\* never running while afterEnter of the same route is.
EnterAndExitAlternate ==
    \A t1, t2 \in Calls :
        ~( /\ trans[t1].enter = "pending"
           /\ trans[t2].exit = "pending"
           /\ trans[t1].enterKey = trans[t2].exitKey )

\* C18: the router of src/unnamed/part_001 has one 'hashchange' listener while started
\* and none while stopped, and a dispatched hashchange event is handled once if the
\* router was started and not at all if it was stopped.
OneSubscriptionWhileStarted ==
    /\ Cardinality(proto.listeners) = (IF proto.listening THEN 1 ELSE 0)
    /\ proto.dispatched => (proto.handled = (IF proto.started THEN 1 ELSE 0))

\* the pattern has literal segments only
IsLiteralPattern(route) ==
    \A j \in 1..Len(route) : ~IsParam(route[j]) /\ route[j] # STAR

\* C21: a registered pattern of literal segments only that is, segment for segment, the
\* request is the one #chooseBest returns, whatever else is registered.
ExactLiteralPatternWins ==
    probe.asked =>
        \A e \in Entries :
            ( /\ IsLiteralPattern(Segments(probe.keys[e]))
              /\ Segments(probe.keys[e]) = probe.user )
                => probe.best = probe.keys[e]

=============================================================================
